---- MODULE Spec2Model ----
(***************************************************************************)
(* A model of src/action.py: the script run by main() (line 162) and the   *)
(* function update_file (lines 97-120) wrapped by tenacity's               *)
(* @retry(wait=wait_fixed(4), stop=stop_after_attempt(15)).                *)
(*                                                                         *)
(* The model has two entry points, chosen in Init:                         *)
(*   entry = "main"        the script as written: main() runs from line    *)
(*                         123 and calls update_file at line 155 with      *)
(*                         eight positional arguments;                     *)
(*   entry = "update_file" update_file called with the seven parameters    *)
(*                         its signature (lines 98-99) declares, by a      *)
(*                         caller holding a clone of the branch.           *)
(* The remote branch, the git working copy and an external writer racing   *)
(* the branch are the environment.                                         *)
(***************************************************************************)
EXTENDS Integers, Sequences, FiniteSets, TLC

VARIABLES
    entry,        \* "main" | "update_file": the entry point of this run
    mpc,          \* position of main(): start, pem, minted, cloned, loop, exists, call, done, failed
                  \* ("caller" when update_file was entered directly)
    fileList,     \* file_path_list (line 132)
    idx,          \* position of the for loop of line 149 in fileList
    pemOnDisk,    \* private.pem was written (lines 138-139)
    remote,       \* the branch head on the hosting platform: path -> file
    headBy,       \* who created the commit the branch head points to
    wc,           \* the local working copy: path -> file
    base,         \* the commit the working copy was cloned / last pulled at: path -> file
    upc,          \* position of update_file: idle, call, pull, get, write, failed, returned, raised
    attempt,      \* tenacity's attempt_number of the running invocation
    nargs,        \* number of positional arguments of the call being made
    content,      \* the content argument of update_file
    derivedFrom,  \* the file revision the content argument was computed from
    sha,          \* local variable sha of update_file (line 113)
    shaAttempt,   \* the attempt in which sha was read
    exc,          \* kind of the exception that ended the last attempt
    log,          \* the commits the engine created, oldest first
    faulted,      \* some remote or git call failed for a reason other than Conflict
    extActed,     \* an external writer has committed to the branch
    allConflict,  \* every attempt of the running invocation so far ended in Conflict
    hadConflict,  \* some attempt of the running invocation ended in Conflict
    env,          \* the configuration read from os.environ (lines 124-136)
    tokenExpired  \* the expires_at of the installation token has passed

vars == <<entry, mpc, fileList, idx, pemOnDisk, remote, headBy, wc, base, upc,
          attempt, nargs, content, derivedFrom, sha, shaAttempt, exc, log,
          faulted, extActed, allConflict, hadConflict, env, tokenExpired>>

-----------------------------------------------------------------------------
(* Program constants *)

\* stop=stop_after_attempt(15), line 97
StopAfterAttempt == 15

\* def update_file(repo, branch_name, file_path, search_string, gh_sha, get_repo, content=None)
MaxPositional == 7

\* content has a default, the six parameters before it have none
MinPositional == 6

\* update_file(repo, branch_name, file_pattern, search_string, gh_sha,
\*             git_local_directory, get_repo, content), line 155
NumArgsPassed == 8

-----------------------------------------------------------------------------
(* Texts.  A text is a sequence of lines, a line a sequence of characters. *)

\* SEARCH_KEY (line 129), REPLACE_VALUE (line 136), SUFFIX (line 134)
SearchString == env.search
ReplaceValue == env.replace
Suffix == env.suffix

\* the configuration of the runs of main and update_file
RunEnv == [search |-> <<"k">>, replace |-> <<"n">>, suffix |-> <<"q">>]

Paths == {"a", "b"}

Min(S) == CHOOSE x \in S : \A y \in S : x <= y

\* a substitution anchored at the start of the line, as s/^KEY:.*/.../ is
SedLineAnchored(line) ==
    LET pat == SearchString \o <<":">>
    IN  IF Len(line) >= Len(pat) /\ SubSeq(line, 1, Len(pat)) = pat
        THEN pat \o ReplaceValue \o Suffix
        ELSE line

\* sed -e 's/KEY:.*/KEY:VALUE SUFFIX/g' on one line: the leftmost match of
\* "KEY:" and everything after it are replaced (line 92)
SedLine(line) ==
    LET pat == SearchString \o <<":">>
        M == {p \in 1..(Len(line) - Len(pat) + 1) :
                SubSeq(line, p, p + Len(pat) - 1) = pat}
    IN  IF M = {} THEN line
        ELSE SubSeq(line, 1, Min(M) - 1) \o pat \o ReplaceValue \o Suffix

Sed(text) == [j \in 1..Len(text) |-> SedLine(text[j])]

File(text) == [exists |-> TRUE, text |-> text]
AbsentFile == [exists |-> FALSE, text |-> <<>>]

\* sed -i on a path of the working copy; sed's exit status is ignored by
\* subprocess.call, so a missing file is left missing (lines 90-94)
find_replace_file_pattern(f) == IF f.exists THEN File(Sed(f.text)) ELSE f

\* the blob sha of a file: a hash of its content
BlobSha(f) == <<"blob", f.text>>
NoSha == <<"none", <<>>>>

KeyOld == <<"k", ":", "o", "q">>
KeyExt == <<"k", ":", "e", "q">>
KeyNew == <<"k", ":", "n", "q">>
OtherA == <<"x", ":", "a">>
OtherB == <<"x", ":", "b">>

\* what the branch may hold when the run starts
InitialFiles == {File(<<KeyOld, OtherA>>), File(<<KeyNew, OtherA>>), AbsentFile}

\* what an external writer may commit at a path
ExternalFiles == {File(<<KeyExt, OtherA>>), File(<<KeyOld, OtherB>>), AbsentFile}

\* FILE_PATH_LIST values (line 132)
FileLists == {<<"a">>, <<"a", "b">>, <<"b", "a">>}

NoWorkingCopy == [p \in Paths |-> AbsentFile]

\* Inputs of find_replace_file_pattern taken on its own: every line of up to
\* MaxLineLen characters, alone or followed by a second line, under several
\* keys, values and suffixes.  The characters are literal ones: none is
\* special to sed
MaxLineLen == 4
SedAlphabet == {"k", ":", " ", "o"}
SedLines == UNION {[1..n -> SedAlphabet] : n \in 0..MaxLineLen}
SedSecondLines == {<<"k", ":", "o">>, <<"o", " ", "o">>}
SedTexts == {<<l>> : l \in SedLines} \cup {<<l, m>> : l \in SedLines, m \in SedSecondLines}
SedEnvs ==
    [search : {<<"k">>, <<"o", "k">>}, replace : {<<"n">>, <<>>},
     suffix : {<<"q">>, <<>>}]

-----------------------------------------------------------------------------
(* Initial states *)

InitMain ==
    /\ entry = "main"
    /\ env = RunEnv
    /\ tokenExpired = FALSE
    /\ mpc = "start"
    /\ fileList \in FileLists
    /\ idx = 1
    /\ pemOnDisk = FALSE
    /\ remote \in [Paths -> InitialFiles]
    /\ headBy = "init"
    /\ wc = NoWorkingCopy
    /\ base = NoWorkingCopy
    /\ upc = "idle"
    /\ attempt = 0
    /\ nargs = 0
    /\ content = <<>>
    /\ derivedFrom = AbsentFile
    /\ sha = NoSha
    /\ shaAttempt = 0
    /\ exc = "none"
    /\ log = <<>>
    /\ faulted = FALSE
    /\ extActed = FALSE
    /\ allConflict = TRUE
    /\ hadConflict = FALSE

\* update_file entered with the parameters it declares: the caller cloned
\* the branch, ran the substitution on the file and read the result
InitUpdateFile ==
    /\ entry = "update_file"
    /\ env = RunEnv
    /\ tokenExpired = FALSE
    /\ mpc = "caller"
    /\ \E p \in Paths : fileList = <<p>>
    /\ idx = 1
    /\ pemOnDisk = FALSE
    /\ remote \in [Paths -> InitialFiles]
    /\ remote[fileList[1]].exists
    /\ headBy = "init"
    /\ base = remote
    /\ wc = [remote EXCEPT ![fileList[1]] = find_replace_file_pattern(@)]
    /\ content = wc[fileList[1]].text
    /\ derivedFrom = remote[fileList[1]]
    /\ upc = "call"
    /\ attempt = 1
    /\ nargs = MaxPositional
    /\ sha = NoSha
    /\ shaAttempt = 0
    /\ exc = "none"
    /\ log = <<>>
    /\ faulted = FALSE
    /\ extActed = FALSE
    /\ allConflict = TRUE
    /\ hadConflict = FALSE

Init == InitMain \/ InitUpdateFile

\* find_replace_file_pattern on its own: main is about to run line 150 on a
\* working copy whose file a holds an arbitrary text
InitSed ==
    /\ entry = "sed"
    /\ env \in SedEnvs
    /\ tokenExpired = FALSE
    /\ mpc = "loop"
    /\ fileList = <<"a">>
    /\ idx = 1
    /\ pemOnDisk = TRUE
    /\ \E t \in SedTexts :
          /\ wc = [NoWorkingCopy EXCEPT !["a"] = File(t)]
          /\ remote = wc
          /\ base = wc
    /\ headBy = "init"
    /\ upc = "idle"
    /\ attempt = 0
    /\ nargs = 0
    /\ content = <<>>
    /\ derivedFrom = AbsentFile
    /\ sha = NoSha
    /\ shaAttempt = 0
    /\ exc = "none"
    /\ log = <<>>
    /\ faulted = FALSE
    /\ extActed = FALSE
    /\ allConflict = TRUE
    /\ hadConflict = FALSE

-----------------------------------------------------------------------------
(* main(), lines 123-159 *)

mainVars == <<mpc, fileList, idx, pemOnDisk>>
ufVars == <<upc, attempt, nargs, sha, shaAttempt, exc, allConflict, hadConflict>>
ghostVars == <<faulted, extActed>>

\* the path the loop of line 149 is at
CurPath == fileList[idx]

\* lines 124-139: read the environment, write the key to private.pem
WritePem ==
    /\ mpc = "start"
    /\ mpc' = "pem"
    /\ pemOnDisk' = TRUE
    /\ UNCHANGED <<entry, env, tokenExpired, fileList, idx, remote, headBy, wc, base, content,
                   derivedFrom, log>>
    /\ UNCHANGED ufVars /\ UNCHANGED ghostVars

\* line 141: get_github_access_token; raise_for_status ends main on a
\* non-2xx answer
MintToken ==
    /\ mpc = "pem"
    /\ \/ mpc' = "minted" /\ faulted' = faulted
       \/ mpc' = "failed" /\ faulted' = TRUE
    /\ UNCHANGED <<entry, env, tokenExpired, fileList, idx, pemOnDisk, remote, headBy, wc, base,
                   content, derivedFrom, log, extActed>>
    /\ UNCHANGED ufVars

\* line 145: git_clone_repo checks the branch out into the working copy
CloneRepo ==
    /\ mpc = "minted"
    /\ \/ /\ ~tokenExpired
          /\ mpc' = "cloned"
          /\ wc' = remote
          /\ base' = remote
          /\ faulted' = faulted
       \/ /\ mpc' = "failed"
          /\ faulted' = TRUE
          /\ UNCHANGED <<wc, base>>
    /\ UNCHANGED <<entry, env, tokenExpired, fileList, idx, pemOnDisk, remote, headBy, content,
                   derivedFrom, log, extActed>>
    /\ UNCHANGED ufVars

\* lines 147-148: github.Github(access_token).get_repo(...)
GetRepo ==
    /\ mpc = "cloned"
    /\ \/ ~tokenExpired /\ mpc' = "loop" /\ faulted' = faulted
       \/ mpc' = "failed" /\ faulted' = TRUE
    /\ UNCHANGED <<entry, env, tokenExpired, fileList, idx, pemOnDisk, remote, headBy, wc, base,
                   content, derivedFrom, log, extActed>>
    /\ UNCHANGED ufVars

\* lines 149-151: the next file of the list; sed -i rewrites it in place
Substitute ==
    /\ mpc = "loop"
    /\ idx <= Len(fileList)
    /\ derivedFrom' = wc[CurPath]
    /\ wc' = [wc EXCEPT ![CurPath] = find_replace_file_pattern(@)]
    /\ mpc' = "exists"
    /\ UNCHANGED <<entry, env, tokenExpired, fileList, idx, pemOnDisk, remote, headBy, base,
                   content, log>>
    /\ UNCHANGED ufVars /\ UNCHANGED ghostVars

\* a test that finds no file
FileExistsNever(f) == FALSE

\* line 152: updated_file_path.exists()
FileExists(f) == f.exists

\* lines 152-157: an existing file is read and update_file is called with
\* the eight arguments of line 155; an absent one is reported and skipped
ReadAndCall ==
    /\ mpc = "exists"
    /\ IF FileExists(wc[CurPath])
       THEN /\ content' = wc[CurPath].text
            /\ mpc' = "call"
            /\ upc' = "call"
            /\ attempt' = 1
            /\ nargs' = NumArgsPassed
            /\ allConflict' = TRUE
            /\ hadConflict' = FALSE
            /\ UNCHANGED idx
       ELSE /\ mpc' = "loop"
            /\ idx' = idx + 1
            /\ UNCHANGED <<content, upc, attempt, nargs, allConflict, hadConflict>>
    /\ UNCHANGED <<entry, env, tokenExpired, fileList, pemOnDisk, remote, headBy, wc, base,
                   derivedFrom, sha, shaAttempt, exc, log>>
    /\ UNCHANGED ghostVars

\* a loop that catches what update_file raises and goes on with the next file
CallEndsSwallows ==
    /\ mpc = "call"
    /\ upc \in {"returned", "raised"}
    /\ mpc' = "loop" /\ idx' = idx + 1 /\ upc' = "idle"
    /\ UNCHANGED <<entry, env, tokenExpired, fileList, pemOnDisk, remote, headBy, wc, base,
                   content, derivedFrom, attempt, nargs, sha, shaAttempt, exc,
                   log, allConflict, hadConflict>>
    /\ UNCHANGED ghostVars

\* line 155 completes: update_file returned (the loop goes on) or raised
\* (nothing in main catches it: the process ends with a traceback)
CallEnds ==
    /\ mpc = "call"
    /\ upc \in {"returned", "raised"}
    /\ IF upc = "returned"
       THEN mpc' = "loop" /\ idx' = idx + 1 /\ upc' = "idle"
       ELSE mpc' = "failed" /\ UNCHANGED <<idx, upc>>
    /\ UNCHANGED <<entry, env, tokenExpired, fileList, pemOnDisk, remote, headBy, wc, base,
                   content, derivedFrom, attempt, nargs, sha, shaAttempt, exc,
                   log, allConflict, hadConflict>>
    /\ UNCHANGED ghostVars

\* line 159: the list is exhausted
Finish ==
    /\ mpc = "loop"
    /\ idx > Len(fileList)
    /\ mpc' = "done"
    /\ UNCHANGED <<entry, env, tokenExpired, fileList, idx, pemOnDisk, remote, headBy, wc, base,
                   content, derivedFrom, log>>
    /\ UNCHANGED ufVars /\ UNCHANGED ghostVars

-----------------------------------------------------------------------------
(* update_file under @retry, lines 97-120 *)

\* a call that binds whatever it is given
BindsAlways(n) == TRUE

\* Python binds the positional arguments of a call to the parameters of
\* lines 98-99; a call with too many or too few raises TypeError
BindsOk(n) == MinPositional <= n /\ n <= MaxPositional

\* an attempt ended by an exception of kind k
AttemptFails(k) ==
    /\ exc' = k
    /\ upc' = "failed"
    /\ allConflict' = (allConflict /\ k = "Conflict")
    /\ hadConflict' = (hadConflict \/ k = "Conflict")
    /\ faulted' = (faulted \/ k \notin {"Conflict", "TypeError"})

\* tenacity calls fn(*args, **kwargs): the arguments are bound anew in
\* every attempt
BindArguments ==
    /\ upc = "call"
    /\ IF BindsOk(nargs)
       THEN /\ upc' = "pull"
            /\ UNCHANGED <<exc, allConflict, hadConflict, faulted>>
       ELSE AttemptFails("TypeError")
    /\ UNCHANGED <<entry, env, tokenExpired, remote, headBy, wc, base, attempt, nargs, content,
                   derivedFrom, sha, shaAttempt, log, extActed>>
    /\ UNCHANGED mainVars

\* paths that differ between the commit the working copy is at and the
\* branch head, and paths with uncommitted local changes
Incoming == {p \in Paths : base[p] # remote[p]}
Dirty == {p \in Paths : wc[p] # base[p]}

\* line 112: git_pull(get_repo).  git refuses to merge when an incoming
\* path has local changes; otherwise the incoming paths are checked out
GitPull ==
    /\ upc = "pull"
    /\ \/ /\ ~tokenExpired
          /\ Incoming \cap Dirty = {}
          /\ wc' = [p \in Paths |-> IF p \in Incoming THEN remote[p] ELSE wc[p]]
          /\ base' = remote
          /\ upc' = "get"
          /\ UNCHANGED <<exc, allConflict, hadConflict, faulted>>
       \/ /\ ~tokenExpired
          /\ Incoming \cap Dirty # {}
          /\ AttemptFails("GitCommandError")
          /\ UNCHANGED <<wc, base>>
       \/ /\ \E k \in {"Transient", "AuthError"} : AttemptFails(k)
          /\ UNCHANGED <<wc, base>>
    /\ UNCHANGED <<entry, env, tokenExpired, remote, headBy, attempt, nargs, content,
                   derivedFrom, sha, shaAttempt, log, extActed>>
    /\ UNCHANGED mainVars

\* a sha computed once, from the clone, before the first attempt
ShaFromClone == [sha |-> BlobSha(derivedFrom), at |-> 0]

\* what line 113 assigns to sha: the blob sha of the file at the branch
\* head now, read in the running attempt
ShaRead == [sha |-> BlobSha(remote[CurPath]), at |-> attempt]

\* line 113: sha = repo.get_contents(file_path, ref=branch_name).sha
GetContents ==
    /\ upc = "get"
    /\ \/ /\ ~tokenExpired
          /\ remote[CurPath].exists
          /\ sha' = ShaRead.sha
          /\ shaAttempt' = ShaRead.at
          /\ upc' = "write"
          /\ UNCHANGED <<exc, allConflict, hadConflict, faulted>>
       \/ /\ ~tokenExpired
          /\ ~remote[CurPath].exists
          /\ AttemptFails("NotFound")
          /\ UNCHANGED <<sha, shaAttempt>>
       \/ /\ \E k \in {"Transient", "AuthError"} : AttemptFails(k)
          /\ UNCHANGED <<sha, shaAttempt>>
    /\ UNCHANGED <<entry, env, tokenExpired, remote, headBy, wc, base, attempt, nargs, content,
                   derivedFrom, log, extActed>>
    /\ UNCHANGED mainVars

\* the commit repo.update_file creates
Commit ==
    [path |-> CurPath, content |-> content, sha |-> sha,
     derivedFrom |-> derivedFrom, replaced |-> remote[CurPath],
     attempt |-> attempt, shaAttempt |-> shaAttempt,
     afterConflict |-> hadConflict, inv |-> idx, parentBy |-> headBy,
     pulled |-> base[CurPath]]

\* a write addressed to another file of the repository
WritePathOther == CHOOSE p \in Paths : p # CurPath

\* line 115: path=file_path
WritePath == CurPath

\* the lookup of the answer raises after the write went through
AfterWriteRaises == "failed"

\* line 120: return response['commit'].sha ends the invocation
AfterWrite == "returned"

\* lines 114-120: repo.update_file(path, message, content, sha, branch).
\* The platform accepts the write only if sha is the blob sha of the file
\* at the branch head, and answers Conflict otherwise; the except clause
\* prints and re-raises
RemoteUpdate ==
    /\ upc = "write"
    /\ \/ /\ ~tokenExpired
          /\ remote[CurPath].exists
          /\ sha = BlobSha(remote[CurPath])
          /\ remote' = [remote EXCEPT ![WritePath] = File(content)]
          /\ headBy' = "engine"
          /\ log' = Append(log, Commit)
          /\ upc' = AfterWrite
          /\ UNCHANGED <<exc, allConflict, hadConflict, faulted>>
       \/ /\ ~tokenExpired
          /\ ~(remote[CurPath].exists /\ sha = BlobSha(remote[CurPath]))
          /\ AttemptFails("Conflict")
          /\ UNCHANGED <<remote, headBy, log>>
       \/ /\ \E k \in {"Transient", "AuthError"} : AttemptFails(k)
          /\ UNCHANGED <<remote, headBy, log>>
    /\ UNCHANGED <<entry, env, tokenExpired, wc, base, attempt, nargs, content, derivedFrom,
                   sha, shaAttempt, extActed>>
    /\ UNCHANGED mainVars

\* a retry predicate that names the retryable kinds
RetryConflictTransient(k) == k \in {"Conflict", "Transient"}

\* retry=retry_if_exception_type(): tenacity's default retries on any
\* Exception (line 97 names no retry= predicate)
ShouldRetry(k) == TRUE

\* stop conditions that are off by one, or missing
ShouldStopLate(n) == n > StopAfterAttempt
ShouldStopEarly(n) == n >= StopAfterAttempt - 1
ShouldStopNever(n) == FALSE

\* stop=stop_after_attempt(15)
ShouldStop(n) == n >= StopAfterAttempt

\* a retry that wraps the whole of main: a failed attempt starts the run over
RetryWholeRun ==
    /\ upc = "failed"
    /\ ShouldRetry(exc)
    /\ ~ShouldStop(attempt)
    /\ attempt' = attempt + 1
    /\ mpc' = "start"
    /\ idx' = 1
    /\ upc' = "idle"
    /\ exc' = "none"
    /\ sha' = NoSha
    /\ shaAttempt' = 0
    /\ UNCHANGED <<entry, env, tokenExpired, remote, headBy, wc, base, nargs, content,
                   derivedFrom, log, allConflict, hadConflict, fileList, pemOnDisk>>
    /\ UNCHANGED ghostVars

\* line 97: after a failed attempt tenacity sleeps wait_fixed(4) and calls
\* the function again with the same arguments; the locals of the new
\* call are unset until it assigns them
RetryAttempt ==
    /\ upc = "failed"
    /\ ShouldRetry(exc)
    /\ ~ShouldStop(attempt)
    /\ attempt' = attempt + 1
    /\ upc' = "call"
    /\ exc' = "none"
    /\ sha' = NoSha
    /\ shaAttempt' = 0
    /\ UNCHANGED <<entry, env, tokenExpired, remote, headBy, wc, base, nargs, content,
                   derivedFrom, log, allConflict, hadConflict>>
    /\ UNCHANGED mainVars /\ UNCHANGED ghostVars

\* line 97: the exception is not retried, or the attempts are used up
\* (RetryError): the invocation raises
StopRetrying ==
    /\ upc = "failed"
    /\ ~ShouldRetry(exc) \/ ShouldStop(attempt)
    /\ upc' = "raised"
    /\ UNCHANGED <<entry, env, tokenExpired, remote, headBy, wc, base, attempt, nargs, content,
                   derivedFrom, sha, shaAttempt, exc, log, allConflict,
                   hadConflict>>
    /\ UNCHANGED mainVars /\ UNCHANGED ghostVars

-----------------------------------------------------------------------------
(* The environment: another writer commits to the same branch *)


ExternalWrite ==
    /\ \E p \in Paths : \E f \in ExternalFiles :
          /\ f # remote[p]
          /\ remote' = [remote EXCEPT ![p] = f]
    /\ headBy' = "external"
    /\ extActed' = TRUE
    /\ UNCHANGED <<entry, env, tokenExpired, wc, base, content, derivedFrom, log, faulted>>
    /\ UNCHANGED mainVars /\ UNCHANGED ufVars

\* Time passes: the token minted at line 141 (by the caller, when
\* update_file is entered directly) reaches its expires_at while the run is
\* still going.  Nothing in the program bounds the duration of a remote
\* call; from then on the platform answers every call with an
\* authentication failure.  The token is only looked at when a remote call
\* is made, so the expiry is taken at the points where one is about to be
\* issued
TokenExpires ==
    /\ mpc \in {"minted", "cloned"} \/ upc \in {"pull", "get", "write"}
    /\ ~tokenExpired
    /\ tokenExpired' = TRUE
    /\ UNCHANGED <<entry, env, remote, headBy, wc, base, content, derivedFrom, log>>
    /\ UNCHANGED mainVars /\ UNCHANGED ufVars /\ UNCHANGED ghostVars

-----------------------------------------------------------------------------

MainStep ==
    \/ WritePem
    \/ MintToken
    \/ CloneRepo
    \/ GetRepo
    \/ Substitute
    \/ ReadAndCall
    \/ CallEnds
    \/ Finish

UpdateFileStep ==
    \/ BindArguments
    \/ GitPull
    \/ GetContents
    \/ RemoteUpdate
    \/ RetryAttempt
    \/ StopRetrying

EngineStep == MainStep \/ UpdateFileStep

Next == EngineStep \/ ExternalWrite \/ TokenExpires

Spec == Init /\ [][Next]_vars

\* the engine is a sequential process that keeps running until it ends
\* the substitution step applied to every input of InitSed
SpecSed == InitSed /\ [][Substitute]_vars

FairSpec == Spec /\ WF_vars(EngineStep)

-----------------------------------------------------------------------------
(* Properties *)

Running == upc \in {"call", "pull", "get", "write", "failed"}
Ended == upc \in {"returned", "raised"}

\* C5: an update_file invocation makes at most StopAfterAttempt attempts, a
\* returned invocation has created a commit for its file, and every running
\* invocation ends: it returns or it raises
C5_BoundedAttempts ==
    /\ [](attempt <= StopAfterAttempt)
    /\ [](upc = "returned" =>
            /\ log # <<>>
            /\ log[Len(log)].inv = idx
            /\ log[Len(log)].path = CurPath)
    /\ (Running ~> Ended)

\* an invocation entered directly that raised after its 15th attempt
C5_Witness ==
    /\ entry = "update_file"
    /\ upc = "raised"
    /\ attempt = StopAfterAttempt
    /\ exc = "Transient"

-----------------------------------------------------------------------------

Listed == {fileList[j] : j \in 1..Len(fileList)}
ListedExisting == {p \in Listed : wc[p].exists}
Updated == {log[j].path : j \in 1..Len(log)}
CommitsOf(i) == {j \in 1..Len(log) : log[j].inv = i}

\* C1: a run of main in which nothing failed and nobody else wrote, with a
\* listed file in the working copy, ends successfully, having written every
\* such file on the first attempt, the branch holding the substituted content
C1_CleanRunPublishes ==
    (/\ entry = "main"
     /\ mpc \in {"done", "failed"}
     /\ ~faulted
     /\ ~extActed
     /\ ListedExisting # {})
    => (/\ mpc = "done"
        /\ \A p \in ListedExisting :
              /\ remote[p] = wc[p]
              /\ \E j \in 1..Len(log) : log[j].path = p /\ log[j].attempt = 1)

\* C2: the sha of every successful write is the blob sha of the revision
\* the written content was derived from
C2_ShaOfContentSource ==
    \A j \in 1..Len(log) : log[j].sha = BlobSha(log[j].derivedFrom)

\* C3: a write made after a Conflict writes the substitution applied to the
\* file as it was re-read after the conflict, which is the file it replaces
C3_RetryRereadsContent ==
    \A j \in 1..Len(log) :
        log[j].afterConflict => log[j].content = Sed(log[j].replaced.text)

C8_ConflictCeiling ==
    (upc = "raised" /\ allConflict)
    => /\ attempt = StopAfterAttempt
       /\ exc = "Conflict"
       /\ CommitsOf(idx) = {}
       /\ headBy = "external"

C8_Witness == upc = "raised" /\ allConflict /\ log = <<>>

\* C9: the sha a write presents was read in the attempt that writes, and
\* every commit replaces the revision whose sha its attempt read
C9_ShaFromSameAttempt ==
    /\ upc = "write" => (shaAttempt = attempt /\ sha # NoSha)
    /\ \A j \in 1..Len(log) :
          /\ log[j].shaAttempt = log[j].attempt
          /\ log[j].sha = BlobSha(log[j].replaced)

\* a commit made by the second attempt, after the first met Conflict
C9_Witness ==
    /\ upc = "returned"
    /\ log # <<>>
    /\ log[Len(log)].attempt = 2
    /\ log[Len(log)].afterConflict

\* C10: an invocation creates at most one commit; once it returned it
\* writes nothing more, once it raised it does nothing more, and a failure
\* at the ceiling is not followed by another attempt
C10_TerminalStates ==
    /\ [](\A i \in 1..Len(fileList) : Cardinality(CommitsOf(i)) <= 1)
    /\ [][upc = "returned" =>
            /\ log' = log
            /\ attempt' = attempt
            /\ upc' \in {"returned", "idle"}]_vars
    /\ [][upc = "raised" =>
            /\ log' = log
            /\ attempt' = attempt
            /\ upc' = "raised"]_vars
    /\ [][(upc = "failed" /\ attempt >= StopAfterAttempt)
            => upc' \in {"failed", "raised"}]_vars

\* an invocation that raised at the ceiling after conflicts and other
\* failures
C10_Witness ==
    /\ upc = "raised"
    /\ attempt = StopAfterAttempt
    /\ hadConflict
    /\ ~allConflict

-----------------------------------------------------------------------------

\* a step that issues a remote call with the installation token: the clone,
\* get_repo, the pull, get_contents, update_file
RemoteCall ==
    \/ mpc \in {"minted", "cloned"} /\ mpc' # mpc
    \/ upc \in {"pull", "get", "write"} /\ upc' # upc

\* C11: no remote call is issued with a token whose expires_at has passed
C11_NoCallWithExpiredToken == [][RemoteCall => ~tokenExpired]_vars

-----------------------------------------------------------------------------

\* the listed paths main found absent in the working copy
AbsentInCopy == {p \in Listed : ~wc[p].exists}

\* C12: in a run of main over several files in which nothing failed and
\* nobody else wrote, a path absent from the working copy does not keep the
\* other listed files from being published
C12_NotFoundSparesSiblings ==
    (/\ entry = "main"
     /\ mpc \in {"done", "failed"}
     /\ ~faulted
     /\ ~extActed
     /\ AbsentInCopy # {})
    => \A p \in ListedExisting : p \in Updated

-----------------------------------------------------------------------------

-----------------------------------------------------------------------------

\* C14: a process that ended on a fatal error has removed private.pem
C14_PemRemovedOnFatalExit == mpc = "failed" => ~pemOnDisk

-----------------------------------------------------------------------------

\* C15: every pull completes before the published content is read: the
\* content of every commit was computed from the revision the last pull
\* before the write left in the working copy
C15_ContentReadAfterPull ==
    \A j \in 1..Len(log) : log[j].derivedFrom = log[j].pulled

-----------------------------------------------------------------------------

\* C16: the engine creates no commit whose content is the content the file
\* already has at the branch head
C16_NoCommitWithoutChange ==
    \A j \in 1..Len(log) : File(log[j].content) # log[j].replaced

-----------------------------------------------------------------------------

\* the text before and after the substitution of lines 150-151
SedIn == derivedFrom.text
SedOut == wc[CurPath].text
KeyColon == SearchString \o <<":">>
Occurrences(line) ==
    {p \in 1..Len(line) :
        /\ p + Len(KeyColon) - 1 <= Len(line)
        /\ \A i \in 1..Len(KeyColon) : line[p + i - 1] = KeyColon[i]}

\* C17 as stated: the transform changes only the lines that begin with
\* "search_key:", whose remainder becomes the value and the suffix; every
\* other line is unchanged
C17_OnlyLeadingKeyLines ==
    mpc = "exists" =>
        /\ Len(SedOut) = Len(SedIn)
        /\ \A j \in 1..Len(SedIn) :
             IF 1 \in Occurrences(SedIn[j])
             THEN SedOut[j] = KeyColon \o ReplaceValue \o Suffix
             ELSE SedOut[j] = SedIn[j]

\* C17 amended: the transform changes the lines that contain "search_key:"
\* anywhere; such a line keeps what precedes the leftmost occurrence, and
\* from there to its end becomes "search_key:", the value, the suffix; a
\* line without an occurrence is unchanged
C17_LeftmostKeyToEndOfLine ==
    mpc = "exists" =>
        /\ Len(SedOut) = Len(SedIn)
        /\ \A j \in 1..Len(SedIn) :
             \/ /\ Occurrences(SedIn[j]) = {}
                /\ SedOut[j] = SedIn[j]
             \/ \E p \in Occurrences(SedIn[j]) :
                  /\ \A q \in Occurrences(SedIn[j]) : p <= q
                  /\ Len(SedOut[j]) = p - 1 + Len(KeyColon) + Len(ReplaceValue) + Len(Suffix)
                  /\ \A i \in 1..(p - 1) : SedOut[j][i] = SedIn[j][i]
                  /\ SubSeq(SedOut[j], p, Len(SedOut[j])) = KeyColon \o ReplaceValue \o Suffix

\* a line holding the key after its first character, rewritten
C17_Witness ==
    /\ entry = "sed"
    /\ mpc = "exists"
    /\ SearchString = <<"k">>
    /\ SedIn = <<<<"o", "k", ":", " ">>, <<"o", " ", "o">>>>
    /\ SedOut # SedIn

-----------------------------------------------------------------------------

\* C18: a write of the engine leaves every path outside the file list as it
\* was at the head immediately before the write
C18_WritesOnlyListedPaths ==
    [][log' # log => \A p \in Paths \ Listed : remote'[p] = remote[p]]_vars

\* the engine has written while the branch holds a file outside the list
C18_Witness ==
    /\ Len(log) = 1
    /\ headBy = "engine"
    /\ \E p \in Paths \ Listed : remote[p].exists

-----------------------------------------------------------------------------

\* how far the set-up of main has got: the credential file, the token, the
\* clone
SetupRank(pc) ==
    CASE pc = "start" -> 0
      [] pc = "pem" -> 1
      [] pc = "minted" -> 2
      [] pc = "cloned" -> 3
      [] OTHER -> 4

\* C19: the write of the credential file, the token mint and the clone each
\* happen at most once in a run (the set-up only moves forward, one of the
\* three steps at a time), and a retry of update_file repeats none of them
C19_SetupOnce ==
    [][/\ SetupRank(mpc') >= SetupRank(mpc)
       /\ pemOnDisk' # pemOnDisk => (mpc = "start" /\ mpc' = "pem")
       /\ mpc' = "minted" => mpc \in {"pem", "minted"}
       /\ mpc' = "cloned" => mpc \in {"minted", "cloned"}
       /\ (base' # base /\ entry = "main") => (mpc = "minted" \/ upc = "pull")
       /\ (upc = "failed" /\ upc' = "call") =>
            /\ attempt' = attempt + 1
            /\ mpc' = mpc
            /\ pemOnDisk' = pemOnDisk
            /\ wc' = wc /\ base' = base]_vars

\* main has made all its attempts on a file after a single set-up
C19_Witness ==
    /\ entry = "main"
    /\ pemOnDisk
    /\ attempt = StopAfterAttempt
    /\ upc = "failed"

-----------------------------------------------------------------------------

\* C20: the files are handled one after another in list order: the loop
\* moves to the next file only from a returned update_file or from a file
\* found absent, main takes no step of its own while an invocation is open,
\* and after update_file raised no file is touched any more
C20_FilesInListOrder ==
    [][/\ idx' # idx =>
            /\ idx' = idx + 1
            /\ \/ mpc = "call" /\ upc = "returned"
               \/ mpc = "exists" /\ ~wc[CurPath].exists
       /\ (mpc \in {"loop", "exists"} /\ mpc' # mpc) => upc = "idle"
       /\ upc = "raised" =>
            /\ idx' = idx /\ upc' = upc
            /\ wc' = wc /\ content' = content /\ log' = log
            /\ mpc' \in {mpc, "failed"}]_vars

\* update_file raised for a file that is not the last of the list
C20_Witness ==
    /\ entry = "main"
    /\ mpc = "failed"
    /\ upc = "raised"
    /\ attempt = StopAfterAttempt
    /\ idx < Len(fileList)

====
